---------------------------- MODULE Spec2Model ----------------------------
(***************************************************************************)
(* A model of opera-bookmarks (bm.go): the tree builder that turns the     *)
(* decoded "roots" value of a bookmarks file into Folder/Link values, the  *)
(* timestamp decoder, the HTML generator and the file writer wrapper.      *)
(*                                                                         *)
(* Go strings are sequences of one-character strings, so that escaping,    *)
(* integer parsing and path concatenation are computed character by        *)
(* character.  A 64-bit integer is four 16-bit limbs, least significant    *)
(* first, in two's complement; arithmetic wraps as Go's int64 does.        *)
(***************************************************************************)
EXTENDS Integers, Sequences, FiniteSets, TLC

VARIABLES
    pc,         \* position of main / of the readTimeStamp loop
    data,       \* the value loadRawData returned (top.Roots)
    root,       \* the *Folder buildTree returned (Nil when it failed)
    err,        \* the error buildTree returned
    visited,    \* keys handed to Folder.add so far, in call order, as paths
    file,       \* the output file: [exists, open, closes, removes]
    calls,      \* the WriteString calls made on the sink, in order
    sink,       \* how the sink answers: the calls that fail
    fnErr,      \* the error the writer function returned
    retErr,     \* the error withWriter's function returned
    tsKey,      \* readTimeStamp: the decimal string being decoded
    val,        \* readTimeStamp: the remaining microsecond count (int64)
    ts,         \* readTimeStamp: the instant accumulated so far
    ovf         \* readTimeStamp: some int64 multiplication has wrapped

vars == <<pc, data, root, err, visited, file, calls, sink, fnErr, retErr,
          tsKey, val, ts, ovf>>

Nil == [type |-> "nil"]

(***************************************************************************)
(* Bounds of the model.                                                    *)
(***************************************************************************)
MaxChildren == 3     \* longest "children" array enumerated
MaxDepth == 2        \* deepest chain of nested folders enumerated
MaxFail == 6         \* latest WriteString call that the sink may fail

(***************************************************************************)
(* Fixed-width integers.                                                   *)
(***************************************************************************)
Base == 2^16
Int64Limbs == 4     \* limbs of an int64
WideLimbs == 6      \* limbs of an instant in nanoseconds (time.Time is wider than int64)

RECURSIVE MulCarry(_, _, _)
\* x * k + c, truncated to Len(x) limbs (k, c small naturals)
MulCarry(x, k, c) ==
    IF x = <<>> THEN <<>>
    ELSE LET p == Head(x) * k + c
         IN  <<p % Base>> \o MulCarry(Tail(x), k, p \div Base)

RECURSIVE AddCarry(_, _, _)
\* x + y + c, truncated to Len(x) limbs (Len(x) = Len(y))
AddCarry(x, y, c) ==
    IF x = <<>> THEN <<>>
    ELSE LET s == Head(x) + Head(y) + c
         IN  <<s % Base>> \o AddCarry(Tail(x), Tail(y), s \div Base)

Not(x) == [i \in 1..Len(x) |-> (Base - 1) - x[i]]
Add(x, y) == AddCarry(x, y, 0)
Sub(x, y) == AddCarry(x, Not(y), 1)
IsNeg(x) == x[Len(x)] >= Base \div 2
Zero(n) == [i \in 1..n |-> 0]
Small(k, n) == [i \in 1..n |-> IF i = 1 THEN k ELSE 0]

RECURSIVE ULess(_, _)
\* unsigned x < y, compared from the most significant limb
ULess(x, y) ==
    IF x = <<>> THEN FALSE
    ELSE LET n == Len(x)
         IN  IF x[n] # y[n] THEN x[n] < y[n]
             ELSE ULess(SubSeq(x, 1, n - 1), SubSeq(y, 1, n - 1))

\* signed x < y
Less(x, y) ==
    IF IsNeg(x) # IsNeg(y) THEN IsNeg(x) ELSE ULess(x, y)

\* sign extension of x to n limbs
Extend(x, n) ==
    [i \in 1..n |-> IF i <= Len(x) THEN x[i]
                    ELSE IF IsNeg(x) THEN Base - 1 ELSE 0]

\* the low n limbs of x
Truncate(x, n) == SubSeq(x, 1, n)

\* x, a wide integer, is the sign extension of its low 64 bits
FitsInt64(x) == Extend(Truncate(x, Int64Limbs), Len(x)) = x

MaxInt64 == [i \in 1..Int64Limbs |-> IF i = Int64Limbs THEN Base \div 2 - 1 ELSE Base - 1]


RECURSIVE DivRem(_, _, _)
\* <<quotient, remainder>> of (r * Base^Len(x) + x) by the small natural k
DivRem(x, k, r) ==
    IF x = <<>> THEN <<(<<>>), r>>
    ELSE LET n == Len(x)
             cur == r * Base + x[n]
             step(rest) == <<rest[1] \o <<cur \div k>>, rest[2]>>
         IN  step(DivRem(SubSeq(x, 1, n - 1), k, cur % k))

(***************************************************************************)
(* Strings: sequences of characters.                                       *)
(***************************************************************************)
Digits == <<"0", "1", "2", "3", "4", "5", "6", "7", "8", "9">>
IsDigit(c) == \E i \in 1..10 : Digits[i] = c
DigitVal(c) == (CHOOSE i \in 1..10 : Digits[i] = c) - 1

RECURSIVE Itoa(_)
\* strconv.Itoa of a natural number
Itoa(i) == IF i < 10 THEN <<Digits[i + 1]>>
           ELSE Itoa(i \div 10) \o <<Digits[(i % 10) + 1]>>

RECURSIVE Decimal(_)
\* the decimal digits of a non-negative limb integer (inverse of ParseInt)
Decimal(x) ==
    LET digits(qr) == IF qr[1] = Zero(Len(x)) THEN <<Digits[qr[2] + 1]>>
                      ELSE Decimal(qr[1]) \o <<Digits[qr[2] + 1]>>
    IN  digits(DivRem(x, 10, 0))

RECURSIVE ParseUint(_, _)
\* strconv.ParseUint(s, 10, 64) continued from the accumulator acc (wide):
\* a non-digit is a syntax error, a value above 2^64 - 1 a range error
ParseUint(s, acc) ==
    IF s = <<>> THEN [ok |-> TRUE, val |-> acc]
    ELSE IF ~IsDigit(Head(s)) THEN [ok |-> FALSE, val |-> Zero(WideLimbs)]
    ELSE LET step(next) ==
                 IF \E i \in (Int64Limbs + 1)..WideLimbs : next[i] # 0
                 THEN [ok |-> FALSE, val |-> Zero(WideLimbs)]
                 ELSE ParseUint(Tail(s), next)
         IN  step(MulCarry(acc, 10, DigitVal(Head(s))))

\* strconv.ParseInt(s, 10, bitSize) for bitSize = 64
ParseInt(s, bitSize) ==
    LET neg == s # <<>> /\ Head(s) = "-"
        signed == s # <<>> /\ Head(s) \in {"+", "-"}
        body == IF signed THEN Tail(s) ELSE s
        limbs == bitSize \div 16
        fail == [ok |-> FALSE, val |-> Zero(limbs)]
        ranged(n) == IF Extend(Truncate(n, limbs), WideLimbs) # n THEN fail
                     ELSE [ok |-> TRUE, val |-> Truncate(n, limbs)]
        signedOf(un) == IF body = <<>> \/ ~un.ok THEN fail
                        ELSE IF neg THEN ranged(Sub(Zero(WideLimbs), un.val))
                        ELSE ranged(un.val)
    IN  signedOf(ParseUint(body, Zero(WideLimbs)))

(***************************************************************************)
(* Decoded JSON values (interface{}) and errors.                           *)
(***************************************************************************)
JStr(s) == [t |-> "string", v |-> s]
JNum(n) == [t |-> "float64", v |-> n]
JArr(a) == [t |-> "[]interface{}", v |-> a]
JObj(m) == [t |-> "map[string]interface{}", v |-> m]

IsStr(x) == x.t = "string"
IsArr(x) == x.t = "[]interface{}"
IsObj(x) == x.t = "map[string]interface{}"

KeyNotFoundError(key) == [type |-> "KeyNotFoundError", key |-> key]
Errorf(format, args) == [type |-> "errorString", msg |-> [format |-> format, args |-> args]]
ParserError(path, msg) == [type |-> "ParserError", path |-> path, msg |-> msg]
Msg(text) == [format |-> text, args |-> <<>>]

\* err.Error() of the errors that are not parser errors
ErrorText(e) ==
    IF e.type = "KeyNotFoundError"
    THEN [format |-> "Tag %q is not found", args |-> <<e.key>>]
    ELSE e.msg

S_slash == <<"/">>
S_hash == <<"#">>

\* mapError putting the key behind the path it extends
mapErrorAppend(key, e) ==
    IF e.type = "ParserError"
    THEN IF Len(e.path) > 0
         THEN [e EXCEPT !.path = e.path \o S_slash \o key]
         ELSE [e EXCEPT !.path = key]
    ELSE ParserError(key, ErrorText(e))

mapError(key, e) ==
    IF e.type = "ParserError"
    THEN IF Len(e.path) > 0
         THEN [e EXCEPT !.path = key \o S_slash \o e.path]
         ELSE [e EXCEPT !.path = key]
    ELSE ParserError(key, ErrorText(e))

(***************************************************************************)
(* Data converters.                                                        *)
(***************************************************************************)
readString(key, m) ==
    IF key \notin DOMAIN m THEN [s |-> <<>>, err |-> KeyNotFoundError(key)]
    ELSE IF ~IsStr(m[key])
         THEN [s |-> <<>>, err |-> Errorf("Tag %q is not a string", <<key>>)]
         ELSE [s |-> m[key].v, err |-> Nil]

readInt(key, m, bitSize) ==
    LET parsed(s, p) ==
            IF p.ok THEN [val |-> p.val, err |-> Nil]
            ELSE [val |-> p.val,
                  err |-> Errorf("Value for tag %q is not an integer: %q", <<key, s>>)]
        converted(r) ==
            IF r.err # Nil THEN [val |-> Zero(bitSize \div 16), err |-> r.err]
            ELSE parsed(r.s, ParseInt(r.s, bitSize))
    IN  converted(readString(key, m))

\* instants are nanoseconds since 1601-01-01 00:00:00 UTC
googleEpoch == Zero(WideLimbs)
ZeroTime == [type |-> "zero time"]

\* a chunk of three centuries
threeCenturies ==
    MulCarry(MulCarry(MulCarry(MulCarry(MulCarry(MulCarry(
        Small(300, Int64Limbs), 365, 0), 24, 0), 60, 0), 60, 0), 1000, 0), 1000, 0)

\* 200 * 365 * 24 * 60 * 60 * 1000000 microseconds, an int64
twoCenturies ==
    MulCarry(MulCarry(MulCarry(MulCarry(MulCarry(MulCarry(
        Small(200, Int64Limbs), 365, 0), 24, 0), 60, 0), 60, 0), 1000, 0), 1000, 0)

\* the constant expression twoCenturies * 1000, which the compiler evaluates exactly
twoCenturiesNs == MulCarry(Extend(twoCenturies, WideLimbs), 1000, 0)

\* time.Duration(x) of an int64 x, and of an exact constant
Duration(x) == x
DurationConst(x) == Truncate(x, Int64Limbs)

\* t.Add(d)
TimeAdd(t, d) == Add(t, Extend(d, WideLimbs))

loopCond(v) == ~Less(v, twoCenturies)
loopTs(t) == TimeAdd(t, DurationConst(twoCenturiesNs))
loopVal(v) == Sub(v, twoCenturies)
lastTs(t, v) == TimeAdd(t, Duration(MulCarry(v, 1000, 0)))

RECURSIVE tsLoop(_, _)
tsLoop(t, v) == IF loopCond(v) THEN tsLoop(loopTs(t), loopVal(v)) ELSE lastTs(t, v)

readTimeStamp(key, m) ==
    LET stamped(r) == IF r.err # Nil THEN [ts |-> ZeroTime, err |-> r.err]
                      ELSE [ts |-> tsLoop(googleEpoch, r.val), err |-> Nil]
    IN  stamped(readInt(key, m, 64))

(***************************************************************************)
(* String literals of the source.                                          *)
(***************************************************************************)
S_name ==
    <<"n", "a", "m", "e">>
S_type ==
    <<"t", "y", "p", "e">>
S_url ==
    <<"u", "r", "l">>
S_children ==
    <<"c", "h", "i", "l", "d", "r", "e", "n">>
S_date_added ==
    <<"d", "a", "t", "e", "_", "a", "d", "d", "e", "d">>
S_date_modified ==
    <<"d", "a", "t", "e", "_", "m", "o", "d", "i", "f", "i", "e", "d">>
S_folder ==
    <<"f", "o", "l", "d", "e", "r">>
S_roots ==
    <<"r", "o", "o", "t", "s">>
htmlHeader ==
    <<"<", "!", "D", "O", "C", "T", "Y", "P", "E", " ", "H", "T", "M", "L",
      ">", "<", "h", "t", "m", "l", ">", "\n", "<", "h", "e", "a", "d", ">",
      "\n", "<", "m", "e", "t", "a", " ", "c", "h", "a", "r", "s", "e", "t",
      "=", "\"", "u", "t", "f", "-", "8", "\"", "/", ">", "<", "t", "i",
      "t", "l", "e", ">", "B", "o", "o", "k", "m", "a", "r", "k", "s", "<",
      "/", "t", "i", "t", "l", "e", ">", "<", "s", "t", "y", "l", "e", ">",
      " ", "u", "l", " ", "{", " ", "l", "i", "s", "t", "-", "s", "t", "y",
      "l", "e", "-", "t", "y", "p", "e", ":", " ", "d", "i", "s", "c", ";",
      " ", "}", " ", "<", "/", "s", "t", "y", "l", "e", ">", "\n", "<", "/",
      "h", "e", "a", "d", ">", "\n">>
S_htmlEnd ==
    <<"<", "/", "h", "t", "m", "l", ">", "\n">>
S_aOpen ==
    <<"<", "a", " ", "h", "r", "e", "f", "=", "\"">>
S_aMid ==
    <<"\"", ">">>
S_aClose ==
    <<"<", "/", "a", ">">>
S_h4 ==
    <<"h", "4">>
S_dt ==
    <<"d", "t">>
S_dl ==
    <<"d", "l">>
S_li ==
    <<"l", "i">>
S_ul ==
    <<"u", "l">>
S_body ==
    <<"b", "o", "d", "y">>

(***************************************************************************)
(* Nodes, links and folders, and the tree builder.  Every constructor      *)
(* yields the SET of its possible results: a Go map is ranged over in an   *)
(* unspecified order.  A result carries the folder or link (Nil on         *)
(* failure), the error, and the arguments of the Folder.add calls made so  *)
(* far, in call order.                                                     *)
(***************************************************************************)
Node(name, key, added, modified) ==
    [Name |-> name, Key |-> key, Added |-> added, Modified |-> modified]

\* read ignoring every error of date_modified
readLenient(key, m) ==
    LET filled(n, a, mo) ==
            IF n.err # Nil THEN [node |-> Nil, err |-> n.err]
            ELSE IF a.err # Nil THEN [node |-> Nil, err |-> a.err]
            ELSE [node |-> Node(n.s, key, a.ts, mo.ts), err |-> Nil]
    IN  filled(readString(S_name, m), readTimeStamp(S_date_added, m),
               readTimeStamp(S_date_modified, m))

\* (*Node).read
read(key, m) ==
    LET filled(n, a, mo) ==
            IF n.err # Nil THEN [node |-> Nil, err |-> n.err]
            ELSE IF a.err # Nil THEN [node |-> Nil, err |-> a.err]
            ELSE [node |-> Node(n.s, key, a.ts, mo.ts),
                  err |-> IF mo.err.type = "KeyNotFoundError" THEN Nil ELSE mo.err]
    IN  filled(readString(S_name, m), readTimeStamp(S_date_added, m),
               readTimeStamp(S_date_modified, m))

makeLink(key, node) ==
    LET failed(e) == [link |-> Nil, err |-> mapError(key, e)]
        made(h, u) == IF h.err # Nil THEN failed(h.err)
                      ELSE IF u.err # Nil THEN failed(u.err)
                      ELSE [link |-> [Node |-> h.node, URL |-> u.s], err |-> Nil]
    IN  made(read(key, node), readString(S_url, node))

addFolder(folder, child, e) ==
    IF e = Nil THEN [folder EXCEPT !.Folders = Append(@, child)] ELSE folder

\* addLink putting the link in front
addLinkFront(folder, child, e) ==
    IF e = Nil THEN [folder EXCEPT !.Links = <<child>> \o @] ELSE folder

addLink(folder, child, e) ==
    IF e = Nil THEN [folder EXCEPT !.Links = Append(@, child)] ELSE folder

Result(folder, e, log) == [folder |-> folder, err |-> e, log |-> log]

RECURSIVE add(_, _, _, _)
RECURSIVE makeChildFolder(_, _, _)
RECURSIVE makeRootFolder(_, _, _)
RECURSIVE childrenLoop(_, _, _, _, _)
RECURSIVE rangeLoop(_, _, _, _, _)

RECURSIVE childrenLoopSkip(_, _, _, _, _)
\* the loop going on to the next element after one that failed
childrenLoopSkip(key, folder, cc, i, log) ==
    IF i >= Len(cc) THEN {Result(folder, Nil, log)}
    ELSE UNION {
           childrenLoopSkip(key, r.folder, cc, i + 1, r.log) :
           r \in add(folder, S_hash \o Itoa(i), cc[i + 1], log) }

\* the loop over cc in makeChildFolder, from index i (0-based) on
childrenLoop(key, folder, cc, i, log) ==
    IF i >= Len(cc) THEN {Result(folder, Nil, log)}
    ELSE UNION {
           IF r.err # Nil THEN {Result(Nil, mapError(key, r.err), r.log)}
           ELSE childrenLoop(key, r.folder, cc, i + 1, r.log) :
           r \in add(folder, S_hash \o Itoa(i), cc[i + 1], log) }

makeChildFolder(key, node, log) ==
    LET filled(folder) ==
            IF S_children \in DOMAIN node
            THEN IF ~IsArr(node[S_children])
                 THEN {Result(Nil, ParserError(key, Msg("Unexpected \"children\" type")), log)}
                 ELSE childrenLoop(key, folder, node[S_children].v, 0, log)
            ELSE {Result(folder, Nil, log)}
        made(h) == IF h.err # Nil THEN {Result(Nil, mapError(key, h.err), log)}
                   ELSE filled([Node |-> h.node, Links |-> <<>>, Folders |-> <<>>])
    IN  made(read(key, node))

\* the loop over the map in makeRootFolder, the keys in todo still to come
rangeLoop(key, folder, node, todo, log) ==
    IF todo = {} THEN {Result(folder, Nil, log)}
    ELSE UNION {
           UNION {
             IF r.err # Nil THEN {Result(Nil, mapError(key, r.err), r.log)}
             ELSE rangeLoop(key, r.folder, node, todo \ {k}, r.log) :
             r \in add(folder, k, node[k], log) } :
           k \in todo }

makeRootFolder(key, node, log) ==
    rangeLoop(key,
              [Node |-> Node(key, key, ZeroTime, ZeroTime), Links |-> <<>>, Folders |-> <<>>],
              node, DOMAIN node, log)

\* (*Folder).add: the results carry the receiver as updated
add(folder, key, item, log) ==
    LET log1 == Append(log, [key |-> key, item |-> item])
        node == item.v
    IN  IF ~IsObj(item)
        THEN {Result(folder, ParserError(key, Msg("Unexpected node type")), log1)}
        ELSE IF S_type \in DOMAIN node
        THEN IF ~IsStr(node[S_type])
             THEN {Result(folder, ParserError(key, Msg("Type tag is not a string")), log1)}
             ELSE IF node[S_type].v = S_folder
             THEN {Result(addFolder(folder, r.folder, r.err), r.err, r.log) :
                     r \in makeChildFolder(key, node, log1)}
             ELSE IF node[S_type].v = S_url
             THEN {Result(addLink(folder, r.link, r.err), r.err, log1) :
                     r \in {makeLink(key, node)}}
             ELSE {Result(folder,
                          ParserError(key, [format |-> "Unknown type %q",
                                            args |-> <<node[S_type].v>>]),
                          log1)}
        ELSE {Result(addFolder(folder, r.folder, r.err), r.err, r.log) :
                r \in makeRootFolder(key, node, log1)}

buildTree(key, item) ==
    IF ~IsObj(item)
    THEN {Result(Nil, Errorf("Invalid root item type", <<>>), <<>>)}
    ELSE makeRootFolder(key, item.v, <<>>)

(***************************************************************************)
(* The HTML generator.  An fhtml closure is a record naming the function   *)
(* that made it and what it captured; call(f, dest) runs it.  The sink     *)
(* dest records every WriteString call made on it, with the error it       *)
(* answered; the calls whose number is in dest.fails answer an error.      *)
(***************************************************************************)
S_amp == <<"&", "a", "m", "p", ";">>
S_apos == <<"&", "#", "3", "9", ";">>
S_lt == <<"&", "l", "t", ";">>
S_gt == <<"&", "g", "t", ";">>
S_quot == <<"&", "#", "3", "4", ";">>

RECURSIVE EscapeString(_)
\* html.EscapeString
EscapeString(s) ==
    IF s = <<>> THEN <<>>
    ELSE LET c == Head(s)
             e == IF c = "&" THEN S_amp
                  ELSE IF c = "'" THEN S_apos
                  ELSE IF c = "<" THEN S_lt
                  ELSE IF c = ">" THEN S_gt
                  ELSE IF c = "\"" THEN S_quot
                  ELSE <<c>>
         IN  e \o EscapeString(Tail(s))

SinkError(n) == [type |-> "sink error", call |-> n]

\* dest.WriteString(text)
WriteString(dest, text) ==
    LET n == Len(dest.calls) + 1
        e == IF n \in dest.fails THEN SinkError(n) ELSE Nil
    IN  [dest |-> [dest EXCEPT !.calls = Append(@, [text |-> text, err |-> e])],
         err |-> e]

htmlNil == [fn |-> "htmlNil"]
htmlRawText(text) == [fn |-> "htmlRawText", text |-> text]
htmlText(text) == htmlRawText(EscapeString(text))
htmlList(fns) == [fn |-> "htmlList", fns |-> fns]
htmlListArgs(fns) == htmlList(fns)
htmlTag(tag, f) ==
    htmlListArgs(<<htmlRawText(<<"<">> \o tag \o <<">">>), f,
                   htmlRawText(<<"<", "/">> \o tag \o <<">">>)>>)
htmlLink(link, text) ==
    htmlRawText(S_aOpen \o EscapeString(link) \o S_aMid \o EscapeString(text) \o S_aClose)

RECURSIVE call(_, _)
RECURSIVE htmlListFunc(_, _, _)

RECURSIVE htmlListFuncAll(_, _, _)
\* the closure running every element, the first error kept
htmlListFuncAll(fns, i, dest) ==
    IF i > Len(fns) THEN [dest |-> dest, err |-> Nil]
    ELSE LET r == call(fns[i], dest)
             rest == htmlListFuncAll(fns, i + 1, r.dest)
         IN  IF r.err # Nil THEN [dest |-> rest.dest, err |-> r.err] ELSE rest

\* the closure htmlList returns, from element i (1-based) of fns on
htmlListFunc(fns, i, dest) ==
    IF i > Len(fns) THEN [dest |-> dest, err |-> Nil]
    ELSE LET r == call(fns[i], dest)
         IN  IF r.err # Nil THEN r ELSE htmlListFunc(fns, i + 1, r.dest)

call(f, dest) ==
    IF f.fn = "htmlNil" THEN [dest |-> dest, err |-> Nil]
    ELSE IF f.fn = "htmlRawText" THEN WriteString(dest, f.text)
    ELSE htmlListFunc(f.fns, 1, dest)

folderName(folder) == htmlTag(S_h4, htmlText(folder.Node.Name))

\* folderLinks without the test for no links
folderLinksAlways(folder) ==
    htmlTag(S_dl, htmlList(
      [i \in 1..Len(folder.Links) |->
         htmlTag(S_dt, htmlLink(folder.Links[i].URL, folder.Links[i].Node.Name))]))

folderLinks(folder) ==
    IF Len(folder.Links) = 0 THEN htmlNil
    ELSE htmlTag(S_dl, htmlList(
           [i \in 1..Len(folder.Links) |->
              htmlTag(S_dt, htmlLink(folder.Links[i].URL, folder.Links[i].Node.Name))]))

RECURSIVE folderListAlways(_)
\* folderList without the test for no folders
folderListAlways(folders) ==
    htmlTag(S_ul, htmlList(
      [i \in 1..Len(folders) |->
         htmlTag(S_li, htmlListArgs(<<folderName(folders[i]),
                                      folderLinks(folders[i]),
                                      folderListAlways(folders[i].Folders)>>))]))

RECURSIVE folderList(_)
folderList(folders) ==
    IF Len(folders) = 0 THEN htmlNil
    ELSE htmlTag(S_ul, htmlList(
           [i \in 1..Len(folders) |->
              htmlTag(S_li, htmlListArgs(<<folderName(folders[i]),
                                           folderLinks(folders[i]),
                                           folderList(folders[i].Folders)>>))]))

foldersToHTML(folders, dest) ==
    call(htmlListArgs(<<htmlRawText(htmlHeader),
                        htmlTag(S_body, folderList(folders)),
                        htmlRawText(S_htmlEnd)>>),
         dest)

(***************************************************************************)
(* The inputs enumerated: decoded "roots" values, well-formed and not.     *)
(***************************************************************************)
D_13 ==
    <<"1", "3", "0", "0", "0", "0", "0", "0", "0", "0", "0", "0", "0", "0",
      "0", "0", "0">>
D_14 ==
    <<"1", "3", "0", "0", "0", "0", "0", "0", "0", "0", "0", "0", "0", "0",
      "0", "0", "1">>
D_notint == <<"1", "x">>
D_empty == <<>>
D_toobig ==
    <<"9", "2", "2", "3", "3", "7", "2", "0", "3", "6", "8", "5", "4", "7",
      "7", "5", "8", "0", "8">>
N_bar ==
    <<"B", "o", "o", "k", "m", "a", "r", "k", "s", " ", "B", "a", "r">>
N_example ==
    <<"E", "x", "a", "m", "p", "l", "e">>
U_example ==
    <<"h", "t", "t", "p", "s", ":", "/", "/", "e", "x", "a", "m", "p", "l",
      "e", ".", "c", "o", "m">>
N_A == <<"A">>
N_B == <<"B", "&">>
N_C == <<"<", "C", ">">>
N_D == <<"D">>
U_1 == <<"u", "?", "a", "&", "b">>
U_2 == <<"\"", "v", "'">>
K_bar ==
    <<"b", "o", "o", "k", "m", "a", "r", "k", "_", "b", "a", "r">>
K_other ==
    <<"o", "t", "h", "e", "r">>
K_empty == <<>>
K_x == <<"x">>
T_sep == <<"s", "e", "p">>

\* a url node; without date_modified
LinkNode(name, url) ==
    JObj(S_type :> JStr(S_url) @@ S_name :> JStr(name) @@ S_url :> JStr(url)
         @@ S_date_added :> JStr(D_13))
\* a folder node without "children"
FolderHead(name) ==
    S_type :> JStr(S_folder) @@ S_name :> JStr(name) @@ S_date_added :> JStr(D_13)
FolderNode(name, children) == JObj(FolderHead(name) @@ S_children :> JArr(children))
With(x, key, v) == JObj(key :> v @@ x.v)
Without(x, key) == JObj([k \in DOMAIN x.v \ {key} |-> x.v[k]])

LinkA == With(LinkNode(N_A, U_1), S_date_modified, JStr(D_14))
LinkC == LinkNode(N_C, U_2)
LinkD == LinkNode(N_D, U_1)
FolderB == FolderNode(N_B, <<LinkD>>)
EmptyObj == JObj(<<>>)

RECURSIVE Chain(_, _)
\* d folders nested in one another around leaf
Chain(d, leaf) == IF d = 0 THEN leaf ELSE FolderNode(N_B, <<Chain(d - 1, leaf)>>)

GoodElems == {LinkA, LinkC, FolderB}
CoreElems == GoodElems \cup {JNum(1), EmptyObj}
TailElems ==
    { Without(LinkA, S_date_added),
      Without(LinkA, S_name),
      Without(LinkC, S_url),
      With(LinkC, S_date_modified, JStr(D_notint)),
      With(LinkC, S_date_modified, JStr(D_toobig)),
      With(LinkC, S_date_modified, JStr(D_empty)),
      With(LinkC, S_date_modified, JNum(13)),
      With(LinkC, S_date_added, JNum(13)),
      With(LinkC, S_url, JNum(0)),
      With(LinkC, S_type, JNum(0)),
      With(LinkC, S_type, JStr(T_sep)),
      JStr(N_A),
      JObj(FolderHead(N_D)),
      Without(FolderB, S_date_added),
      With(FolderB, S_date_modified, JStr(D_notint)),
      With(FolderB, S_date_modified, JStr(D_14)),
      With(FolderB, S_children, JStr(N_A)),
      JObj(S_name :> JStr(N_A)),
      JObj(K_x :> FolderB),
      JObj(K_empty :> JNum(1)) }
    \cup { Chain(d, leaf) : d \in 1..MaxDepth,
                           leaf \in {LinkA, JNum(1), Without(LinkC, S_date_added), EmptyObj} }

AllSeqs(S, n) == UNION {[1..k -> S] : k \in 0..n}

ChildSeqs ==
    AllSeqs(CoreElems, MaxChildren)
    \cup { s \o <<b>> : s \in AllSeqs(GoodElems, MaxChildren - 1), b \in TailElems }

\* the document of the specification's end-to-end example: the roots value
MinimalDoc ==
    JObj(K_bar :> JObj(S_name :> JStr(N_bar) @@ S_date_added :> JStr(D_13)
                       @@ S_children :> JArr(<<LinkNode(N_example, U_example)>>)))
\* the same with the entry tagged as a folder, as the browser writes it
MinimalDocTyped ==
    JObj(K_bar :> FolderNode(N_bar, <<LinkNode(N_example, U_example)>>))

RootVals == {FolderNode(N_bar, <<LinkA, FolderB>>), JObj(FolderHead(N_D)), JNum(1),
             Without(FolderB, S_name), EmptyObj, JObj(K_empty :> JStr(N_A)),
             JObj(K_x :> FolderB @@ K_other :> LinkC)}

Docs ==
    { JObj(K_bar :> FolderNode(N_bar, cs)) : cs \in ChildSeqs }
    \cup { JObj(K_bar :> v @@ K_other :> w) : v \in RootVals, w \in RootVals }
    \cup { JObj(K_empty :> v) : v \in RootVals }
    \cup { JObj(K_bar :> v @@ K_empty :> JNum(1)) : v \in RootVals }
    \cup { MinimalDoc, MinimalDocTyped, EmptyObj, JNum(1), JArr(<<FolderB>>), JStr(N_A) }

(***************************************************************************)
(* main: loadRawData, buildTree, then writeFolders through withWriter for  *)
(* an output name other than "STDOUT".  Opening, closing and removing the  *)
(* file may each fail; the sink may fail some WriteString calls.           *)
(***************************************************************************)
NoFile == [exists |-> FALSE, open |-> FALSE, closes |-> 0, removes |-> 0, removed |-> FALSE]
OSError(op) == [type |-> "os error", op |-> op]

Sinks == {{}} \cup {{n} : n \in 1..MaxFail} \cup {{n, n + 1} : n \in 1..MaxFail}

Idle ==
    /\ tsKey = <<>>
    /\ val = Zero(Int64Limbs)
    /\ ts = googleEpoch
    /\ ovf = FALSE

Init ==
    /\ pc = "loadRawData"
    /\ data = Nil
    /\ root = Nil
    /\ err = Nil
    /\ visited = <<>>
    /\ file = NoFile
    /\ calls = <<>>
    /\ sink = {}
    /\ fnErr = Nil
    /\ retErr = Nil
    /\ Idle

\* loadRawData succeeded with some decoded value (a failure ends the program
\* before anything modelled here has run)
LoadRawData ==
    /\ pc = "loadRawData"
    /\ data' \in Docs
    /\ pc' = "buildTree"
    /\ UNCHANGED <<root, err, visited, file, calls, sink, fnErr, retErr,
                   tsKey, val, ts, ovf>>

BuildTree ==
    /\ pc = "buildTree"
    /\ \E r \in buildTree(S_roots, data) :
         /\ root' = r.folder
         /\ err' = r.err
         /\ visited' = r.log
         /\ pc' = IF r.err # Nil THEN "died" ELSE "create"
    /\ UNCHANGED <<data, file, calls, sink, fnErr, retErr, tsKey, val, ts, ovf>>

\* os.Create(name)
Create ==
    /\ pc = "create"
    /\ \/ /\ file' = [file EXCEPT !.exists = TRUE, !.open = TRUE]
          /\ pc' = "fn"
          /\ UNCHANGED retErr
       \/ /\ retErr' = OSError("create")
          /\ pc' = "died"
          /\ UNCHANGED file
    /\ UNCHANGED <<data, root, err, visited, calls, sink, fnErr, tsKey, val, ts, ovf>>

\* err = fn(file), fn being the closure of writeFolders
Fn ==
    /\ pc = "fn"
    /\ \E s \in Sinks :
         LET r == foldersToHTML(root.Folders, [fails |-> s, calls |-> <<>>])
         IN  /\ sink' = s
             /\ calls' = r.dest.calls
             /\ fnErr' = r.err
    /\ pc' = "close"
    /\ UNCHANGED <<data, root, err, visited, file, retErr, tsKey, val, ts, ovf>>

\* the deferred function letting the error of Close replace that of fn
CloseOverrides ==
    /\ pc = "close"
    /\ \E e \in {Nil, OSError("close")} :
         /\ retErr' = IF e # Nil THEN e ELSE fnErr
         /\ pc' = IF retErr' # Nil THEN "remove" ELSE "done"
    /\ file' = [file EXCEPT !.open = FALSE, !.closes = @ + 1]
    /\ UNCHANGED <<data, root, err, visited, calls, sink, fnErr, tsKey, val, ts, ovf>>

\* the deferred function, up to its decision to remove the file
Close ==
    /\ pc = "close"
    /\ \E e \in {Nil, OSError("close")} :
         /\ retErr' = IF e # Nil /\ fnErr = Nil THEN e ELSE fnErr
         /\ pc' = IF retErr' # Nil THEN "remove" ELSE "done"
    /\ file' = [file EXCEPT !.open = FALSE, !.closes = @ + 1]
    /\ UNCHANGED <<data, root, err, visited, calls, sink, fnErr, tsKey, val, ts, ovf>>

\* os.Remove(name), its result ignored
Remove ==
    /\ pc = "remove"
    /\ \/ file' = [file EXCEPT !.exists = FALSE, !.removes = @ + 1, !.removed = TRUE]
       \/ file' = [file EXCEPT !.removes = @ + 1]
    /\ pc' = "died"
    /\ UNCHANGED <<data, root, err, visited, calls, sink, fnErr, retErr,
                   tsKey, val, ts, ovf>>

Next == LoadRawData \/ BuildTree \/ Create \/ Fn \/ Close \/ Remove

Spec == Init /\ [][Next]_vars

(***************************************************************************)
(* readTimeStamp on its own, one loop iteration per step.  The ghost ovf   *)
(* records that an int64 product differed from the exact one.              *)
(***************************************************************************)
MaxChunks == 3       \* inputs are enumerated around 0..MaxChunks chunks

One == Small(1, Int64Limbs)
\* the largest microsecond count whose nanosecond count fits a time.Duration
MaxDurationMicros == DivRem(MaxInt64, 1000, 0)[1]

TSVals ==
    UNION { { MulCarry(twoCenturies, k, 0),
              Add(MulCarry(twoCenturies, k, 0), One),
              Sub(MulCarry(twoCenturies, k + 1, 0), One) } : k \in 0..MaxChunks }
    \cup { MaxInt64, MaxDurationMicros, Add(MaxDurationMicros, One),
           ParseInt(D_13, 64).val }

TSInputs ==
    { Decimal(v) : v \in TSVals }
    \cup { <<"-">> \o Decimal(One), <<"+">> \o Decimal(One), D_notint, D_toobig, D_empty }

InitTS ==
    /\ pc = "readTimeStamp"
    /\ tsKey \in TSInputs
    /\ val = Zero(Int64Limbs)
    /\ ts = googleEpoch
    /\ ovf = FALSE
    /\ data = Nil
    /\ root = Nil
    /\ err = Nil
    /\ visited = <<>>
    /\ file = NoFile
    /\ calls = <<>>
    /\ sink = {}
    /\ fnErr = Nil
    /\ retErr = Nil

\* val, err = readInt(key, data, 64); ts = googleEpoch
TSReadInt ==
    /\ pc = "readTimeStamp"
    /\ LET r == readInt(S_date_added, S_date_added :> JStr(tsKey), 64)
       IN  /\ err' = r.err
           /\ val' = r.val
           /\ pc' = IF r.err = Nil THEN "loop" ELSE "returned error"
    /\ UNCHANGED <<data, root, visited, file, calls, sink, fnErr, retErr, tsKey, ts, ovf>>

\* one iteration of the for loop
TSLoop ==
    /\ pc = "loop"
    /\ loopCond(val)
    /\ ts' = loopTs(ts)
    /\ val' = loopVal(val)
    /\ ovf' = (ovf \/ ~FitsInt64(twoCenturiesNs))
    /\ UNCHANGED <<pc, data, root, err, visited, file, calls, sink, fnErr, retErr, tsKey>>

\* the loop's exit and the last Add
TSLast ==
    /\ pc = "loop"
    /\ ~loopCond(val)
    /\ ts' = lastTs(ts, val)
    /\ ovf' = (ovf \/ MulCarry(Extend(val, WideLimbs), 1000, 0)
                        # Extend(MulCarry(val, 1000, 0), WideLimbs))
    /\ pc' = "returned"
    /\ UNCHANGED <<data, root, err, visited, file, calls, sink, fnErr, retErr, tsKey, val>>

NextTS == TSReadInt \/ TSLoop \/ TSLast

\* the program is sequential: a loop step that can be taken is taken
SpecTS == InitTS /\ [][NextTS]_vars /\ WF_vars(TSLoop) /\ WF_vars(TSLast)

(***************************************************************************)
(* Properties.                                                             *)
(***************************************************************************)
Built == pc \in {"create", "fn", "close", "remove", "done", "died"}
Rendered == pc = "close" \/ file.closes > 0
Returned == file.closes > 0 /\ pc \in {"done", "died"}
Range(s) == {s[i] : i \in 1..Len(s)}

RECURSIVE Concat(_)
Concat(ss) == IF ss = <<>> THEN <<>> ELSE Head(ss) \o Concat(Tail(ss))

\* what each WriteString call was given, and what reached the sink
Texts == [i \in 1..Len(calls) |-> calls[i].text]
Failing == {i \in 1..Len(calls) : calls[i].err # Nil}

\* the value readTimeStamp was given, and the exact instant it stands for
TSGiven == ParseInt(tsKey, 64).val
TSExact == Add(googleEpoch, MulCarry(Extend(TSGiven, WideLimbs), 1000, 0))

C10_Safe ==
    /\ FitsInt64(twoCenturiesNs)
    /\ (pc = "returned" /\ ~IsNeg(TSGiven)) =>
          /\ ts = TSExact
          /\ ~ovf
          /\ ~IsNeg(val)
          /\ Less(val, twoCenturies)

\* C10: for every non-negative 64-bit microsecond count readTimeStamp
\* terminates and returns the instant exactly that many microseconds after
\* 1601-01-01 00:00:00 UTC; the chunk times 1000 fits in int64, the loop
\* leaves a remainder below the chunk, and no int64 multiplication wraps.
C10_ReadTimeStamp ==
    /\ []C10_Safe
    /\ (pc = "loop") ~> (pc = "returned")

\* a value beyond the 290 years one time.Duration holds has been decoded
C10_Witness ==
    /\ pc = "returned"
    /\ Less(MaxDurationMicros, TSGiven)
    /\ ts = TSExact

\* C8: foldersToHTML returns an error iff some WriteString call returned
\* one; the error is that of the first failing call, which is the last call
\* made; the calls before it are those of a run on a sink that never fails.
C8_SinkFailure ==
    Rendered =>
      /\ (fnErr # Nil) <=> (Failing # {})
      /\ Failing # {} =>
           /\ Failing = {Len(calls)}
           /\ fnErr = calls[Len(calls)].err
           /\ Len(calls) \in sink
           /\ \A n \in sink : Len(calls) <= n
      /\ LET full == foldersToHTML(root.Folders, [fails |-> {}, calls |-> <<>>]).dest.calls
         IN  /\ Len(calls) <= Len(full)
             /\ \A i \in 1..Len(calls) : calls[i].text = full[i].text
             /\ Failing = {} => Len(calls) = Len(full)

\* a write failed in the middle of the output, and the sink would have
\* failed the next call too
C8_Witness ==
    /\ Rendered
    /\ fnErr = SinkError(4)
    /\ sink = {4, 5}
    /\ Len(calls) = 4

\* C9 as stated: on return the file has been closed exactly once, it exists
\* iff the returned error is nil, and an error of the writer function is
\* never replaced by that of Close.
C9_Original ==
    Returned =>
      /\ file.closes = 1
      /\ file.exists <=> (retErr = Nil)
      /\ fnErr # Nil => retErr = fnErr

\* C9 amended: on return the file has been closed exactly once; os.Remove
\* has been called on it exactly once if the returned error is non-nil and
\* not at all otherwise; the file exists if the returned error is nil and
\* is gone if the removal succeeded; an error of the writer function is
\* never replaced by that of Close.
C9_FileCleanup ==
    Returned =>
      /\ file.closes = 1
      /\ ~file.open
      /\ file.removes = (IF retErr = Nil THEN 0 ELSE 1)
      /\ retErr = Nil => file.exists
      /\ file.removed => ~file.exists
      /\ (retErr # Nil /\ file.exists) => ~file.removed
      /\ fnErr # Nil => retErr = fnErr
      /\ (fnErr = Nil /\ retErr # Nil) => retErr = OSError("close")

\* the writer function and Close both failed, and the file was removed
C9_Witness ==
    /\ Returned
    /\ fnErr # Nil
    /\ file.closes = 1
    /\ file.removed
    /\ retErr = fnErr

(***************************************************************************)
(* The input's own structure, read off the decoded value without the       *)
(* builder: the nodes a traversal meets, and what makes one malformed.     *)
(***************************************************************************)
RECURSIVE JoinKeys(_)
\* the keys joined by "/"
JoinKeys(ks) == IF Len(ks) = 1 THEN ks[1] ELSE ks[1] \o S_slash \o JoinKeys(Tail(ks))

RECURSIVE DropEmptyTail(_)
\* ks without the empty keys at its end (the first key stays)
DropEmptyTail(ks) ==
    IF Len(ks) > 1 /\ ks[Len(ks)] = <<>> THEN DropEmptyTail(SubSeq(ks, 1, Len(ks) - 1))
    ELSE ks

IsTyped(x) == IsObj(x) /\ S_type \in DOMAIN x.v
HasType(x, t) == IsTyped(x) /\ IsStr(x.v[S_type]) /\ x.v[S_type].v = t
HasStr(x, key) == key \in DOMAIN x.v /\ IsStr(x.v[key])
HasChildren(x) == S_children \in DOMAIN x.v /\ IsArr(x.v[S_children])

RECURSIVE NodePaths(_, _)
\* every node at or below the last of items, with the keys and the values
\* on the way to it from the first
NodePaths(keys, items) ==
    LET x == items[Len(items)]
    IN  {[keys |-> keys, items |-> items]} \cup
        IF ~IsObj(x) THEN {}
        ELSE IF ~IsTyped(x)
        THEN UNION {NodePaths(Append(keys, k), Append(items, x.v[k])) : k \in DOMAIN x.v}
        ELSE IF HasType(x, S_folder) /\ HasChildren(x)
        THEN UNION {NodePaths(Append(keys, S_hash \o Itoa(i - 1)),
                              Append(items, x.v[S_children].v[i])) :
                      i \in 1..Len(x.v[S_children].v)}
        ELSE {}

RECURSIVE StripZeros(_)
StripZeros(s) == IF Len(s) > 1 /\ Head(s) = "0" THEN StripZeros(Tail(s)) ELSE s

RECURSIVE DecLeq(_, _)
\* a <= b for digit strings of equal length
DecLeq(a, b) ==
    IF a = <<>> THEN TRUE
    ELSE IF Head(a) # Head(b) THEN DigitVal(Head(a)) < DigitVal(Head(b))
    ELSE DecLeq(Tail(a), Tail(b))

Dec_2_63 ==
    <<"9", "2", "2", "3", "3", "7", "2", "0", "3", "6", "8", "5", "4", "7",
      "7", "5", "8", "0", "8">>
Dec_2_63_less_1 ==
    <<"9", "2", "2", "3", "3", "7", "2", "0", "3", "6", "8", "5", "4", "7",
      "7", "5", "8", "0", "7">>

\* s is a base-10 integer that fits 64 bits
IsBase10Int64(s) ==
    LET signed == s # <<>> /\ Head(s) \in {"+", "-"}
        body == IF signed THEN Tail(s) ELSE s
        mag == StripZeros(body)
        top == IF s # <<>> /\ Head(s) = "-" THEN Dec_2_63 ELSE Dec_2_63_less_1
    IN  /\ body # <<>>
        /\ \A i \in 1..Len(body) : IsDigit(body[i])
        /\ \/ Len(mag) < Len(top)
           \/ Len(mag) = Len(top) /\ DecLeq(mag, top)

GoodDate(x, key) == HasStr(x, key) /\ IsBase10Int64(x.v[key].v)

\* the node itself, its children apart, is one the format does not allow
LocalBad(x) ==
    \/ ~IsObj(x)
    \/ /\ IsTyped(x)
       /\ \/ ~HasType(x, S_folder) /\ ~HasType(x, S_url)
          \/ ~HasStr(x, S_name)
          \/ ~GoodDate(x, S_date_added)
          \/ S_date_modified \in DOMAIN x.v /\ ~GoodDate(x, S_date_modified)
          \/ HasType(x, S_url) /\ ~HasStr(x, S_url)
          \/ HasType(x, S_folder) /\ S_children \in DOMAIN x.v /\ ~HasChildren(x)

IsParserError == err.type = "ParserError"

EndsWith(s, suffix) ==
    Len(suffix) <= Len(s) /\ SubSeq(s, Len(s) - Len(suffix) + 1, Len(s)) = suffix

\* the nodes of a folder of the tree and of the folders below it
RECURSIVE TreeNodes(_)
TreeNodes(folder) ==
    {folder.Node} \cup {folder.Links[i].Node : i \in 1..Len(folder.Links)}
    \cup UNION {TreeNodes(folder.Folders[i]) : i \in 1..Len(folder.Folders)}

\* the path the failing node is reported at, the node being the last one
\* handed to Folder.add: join is how the keys on the way make the path
FailsAt(join(_)) ==
    \E p \in NodePaths(<<S_roots>>, <<data>>) :
       /\ Len(p.keys) > 1
       /\ \A j \in 2..Len(p.keys) :
            [key |-> p.keys[j], item |-> p.items[j]] \in Range(visited)
       /\ visited[Len(visited)] = [key |-> p.keys[Len(p.keys)], item |-> p.items[Len(p.items)]]
       /\ err.path = join(p.keys)

JoinKept(ks) == JoinKeys(DropEmptyTail(ks))

\* children 0 and 1 of the bookmarks bar are well-formed, child 2 is no object
BadThird ==
    /\ IsObj(data)
    /\ DOMAIN data.v = {K_bar}
    /\ HasType(data.v[K_bar], S_folder) /\ ~LocalBad(data.v[K_bar])
    /\ HasChildren(data.v[K_bar])
    /\ LET cc == data.v[K_bar].v[S_children].v
       IN  /\ Len(cc) >= 3
           /\ cc[1] \in GoodElems /\ cc[2] \in GoodElems
           /\ ~IsObj(cc[3])

BadThirdError ==
    ParserError(JoinKeys(<<S_roots, K_bar, S_hash \o Itoa(2)>>), Msg("Unexpected node type"))

\* C3 as stated: the path of a parser error is the slash-joined sequence of
\* all the keys from "roots" down to the failing node.
C3_Original ==
    (Built /\ IsParserError) => FailsAt(JoinKeys)

\* C3 amended: the path of a parser error is the slash-joined sequence of
\* the keys from "roots" down to the failing node, outermost first, each
\* once, with the empty-string keys at the failing end of the sequence left
\* out; a non-object at index 2 after two well-formed children fails with
\* "Unexpected node type" at roots/bookmark_bar/#2.
C3_ErrorPath ==
    /\ (Built /\ IsParserError) => FailsAt(JoinKept)
    /\ (Built /\ BadThird) => err = BadThirdError

C3_Witness ==
    /\ Built
    /\ BadThird
    /\ err = BadThirdError
    /\ Len(visited) > 3

\* an untyped mapping is an element of some "children" array below x
RECURSIVE UntypedChild(_)
UntypedChild(x) ==
    /\ IsObj(x)
    /\ IF IsTyped(x)
       THEN /\ HasType(x, S_folder)
            /\ HasChildren(x)
            /\ \E i \in 1..Len(x.v[S_children].v) :
                 LET c == x.v[S_children].v[i]
                 IN  (IsObj(c) /\ ~IsTyped(c)) \/ UntypedChild(c)
       ELSE \E k \in DOMAIN x.v : UntypedChild(x.v[k])

\* C2: a mapping without a "type" field that is an element of a "children"
\* array makes buildTree fail.
C2_UntypedChildFails ==
    (Built /\ UntypedChild(data)) => err # Nil

\* C5: buildTree is fail-fast.  When it fails it returns no folder, the node
\* it failed at is the last one it was handed and no node before it was
\* malformed; when it succeeds it returns a folder, it has been handed every
\* node of the input and none of them is malformed.
C5_FailFast ==
    Built =>
      /\ (err # Nil) <=> (root = Nil)
      /\ (err # Nil /\ IsObj(data)) =>
           /\ visited # <<>>
           /\ LocalBad(visited[Len(visited)].item)
           /\ \A i \in 1..(Len(visited) - 1) : ~LocalBad(visited[i].item)
      /\ err = Nil =>
           /\ \A i \in 1..Len(visited) : ~LocalBad(visited[i].item)
           /\ Len(visited) = Cardinality(NodePaths(<<S_roots>>, <<data>>)) - 1

\* the parse failed at a node that has a sibling after it
C5_Witness ==
    /\ Built
    /\ err # Nil
    /\ root = Nil
    /\ IsObj(data) /\ DOMAIN data.v = {K_bar} /\ HasChildren(data.v[K_bar])
    /\ Len(visited) = 2
    /\ Len(data.v[K_bar].v[S_children].v) = 3

\* C4: of a url or folder node whose other fields are well-formed: without
\* date_modified it parses, its Modified time unset; with a date_modified
\* that is no string or no base-10 integer of 64 bits buildTree fails at it;
\* without date_added buildTree fails at it with the key-not-found error for
\* "date_added", on a path that ends with the node's key.
C4_Dates ==
    Built =>
      \A i \in 1..Len(visited) :
        LET x == visited[i].item
            key == visited[i].key
            failsHere == err # Nil /\ i = Len(visited)
        IN  ( /\ IsObj(x)
              /\ HasType(x, S_folder) \/ HasType(x, S_url)
              /\ ~LocalBad(With(With(x, S_date_added, JStr(D_13)), S_date_modified, JStr(D_13))) )
            =>
            /\ S_date_added \notin DOMAIN x.v =>
                 /\ failsHere
                 /\ IsParserError
                 /\ err.msg = ErrorText(KeyNotFoundError(S_date_added))
                 /\ key # <<>> => EndsWith(err.path, S_slash \o key)
            /\ (GoodDate(x, S_date_added) /\ S_date_modified \notin DOMAIN x.v) =>
                 /\ ~failsHere
                 /\ err = Nil =>
                      \E n \in TreeNodes(root) :
                         /\ n.Key = key
                         /\ n.Name = x.v[S_name].v
                         /\ n.Modified = ZeroTime
                         /\ n.Added # ZeroTime
            /\ (GoodDate(x, S_date_added) /\ S_date_modified \in DOMAIN x.v
                  /\ ~GoodDate(x, S_date_modified)) => failsHere

\* a link without date_modified has been parsed, its Modified time unset
C4_Witness ==
    /\ Built
    /\ err = Nil
    /\ \E i \in 1..Len(visited) :
         /\ visited[i].item = LinkC
         /\ \E n \in TreeNodes(root) :
              n.Key = visited[i].key /\ n.Name = N_C /\ n.Modified = ZeroTime

(***************************************************************************)
(* The output read back: the texts written, as one string and as tokens.   *)
(***************************************************************************)
Output == Concat(Texts)

Occurrences(hay, needle) ==
    Cardinality({i \in 1..(Len(hay) - Len(needle) + 1) :
                   SubSeq(hay, i, i + Len(needle) - 1) = needle})
Contains(hay, needle) == Occurrences(hay, needle) > 0

Tag(t) == <<"<">> \o t \o <<">">>
EndTag(t) == <<"<", "/">> \o t \o <<">">>
Anchor(url, name) ==
    S_aOpen \o EscapeString(url) \o S_aMid \o EscapeString(name) \o S_aClose

X_heading ==
    <<"<", "h", "4", ">", "B", "o", "o", "k", "m", "a", "r", "k", "s", " ",
      "B", "a", "r", "<", "/", "h", "4", ">">>
X_list ==
    <<"<", "d", "l", ">", "<", "d", "t", ">", "<", "a", " ", "h", "r", "e",
      "f", "=", "\"", "h", "t", "t", "p", "s", ":", "/", "/", "e", "x", "a",
      "m", "p", "l", "e", ".", "c", "o", "m", "\"", ">", "E", "x", "a", "m",
      "p", "l", "e", "<", "/", "a", ">", "<", "/", "d", "t", ">", "<", "/",
      "d", "l", ">">>

\* what the end-to-end example expects of the output
C1_Output ==
    /\ Contains(Output, X_heading)
    /\ Occurrences(Output, Tag(S_dl)) = 1
    /\ Occurrences(Output, Tag(S_dt)) = 1
    /\ Contains(Output, X_list)
    /\ Occurrences(Output, Tag(S_ul)) = 1
    /\ Contains(Output, EndTag(S_dl) \o EndTag(S_li) \o EndTag(S_ul))

\* C1 as stated: on the example document, whose bookmark_bar entry has no
\* "type", the pipeline succeeds and the output holds the heading, one <dl>
\* with the one link, and no list of subfolders.
C1_Original ==
    (Built /\ data = MinimalDoc) =>
       /\ err = Nil
       /\ (Rendered /\ fnErr = Nil) => C1_Output

\* C1 amended: on the example document with "type": "folder" in its
\* bookmark_bar entry the pipeline succeeds and the output holds the
\* heading, one <dl> with the one link, and no list of subfolders; on the
\* document as given buildTree fails with "Unexpected node type" at the
\* first field of the entry it ranges over.
C1_EndToEnd ==
    /\ (Built /\ data = MinimalDocTyped) =>
          /\ err = Nil
          /\ (Rendered /\ fnErr = Nil) => C1_Output
    /\ (Built /\ data = MinimalDoc) =>
          /\ root = Nil
          /\ IsParserError
          /\ err.msg = Msg("Unexpected node type")
          /\ \E k \in {S_name, S_date_added, S_children} :
                err.path = JoinKeys(<<S_roots, K_bar, k>>)

C1_Witness ==
    /\ data = MinimalDocTyped
    /\ Rendered
    /\ fnErr = Nil
    /\ C1_Output


RECURSIVE AllTyped(_)
\* x is a well-formed url or folder node, and so are the nodes below it
AllTyped(x) ==
    /\ IsTyped(x)
    /\ ~LocalBad(x)
    /\ (HasType(x, S_folder) /\ HasChildren(x)) =>
          \A i \in 1..Len(x.v[S_children].v) : AllTyped(x.v[S_children].v[i])

SingleTyped == IsObj(data) /\ DOMAIN data.v = {K_bar} /\ AllTyped(data.v[K_bar])

Children(x) == IF HasChildren(x) THEN x.v[S_children].v ELSE <<>>
SrcAnchor(x) == Anchor(x.v[S_url].v, x.v[S_name].v)

RECURSIVE SrcOrder(_)
\* the entries of folder x with its children in the order of the source
SrcOrder(x) ==
    <<EscapeString(x.v[S_name].v)>> \o
    Concat([i \in 1..Len(Children(x)) |->
              IF HasType(Children(x)[i], S_url) THEN <<SrcAnchor(Children(x)[i])>>
              ELSE SrcOrder(Children(x)[i])])

RECURSIVE LinksFirst(_)
\* the entries of folder x: its links in the order of the source, then its
\* subfolders in the order of the source
LinksFirst(x) ==
    <<EscapeString(x.v[S_name].v)>> \o
    Concat([i \in 1..Len(Children(x)) |->
              IF HasType(Children(x)[i], S_url) THEN <<SrcAnchor(Children(x)[i])>>
              ELSE <<>>]) \o
    Concat([i \in 1..Len(Children(x)) |->
              IF HasType(Children(x)[i], S_url) THEN <<>>
              ELSE LinksFirst(Children(x)[i])])

StartsWith(s, prefix) == Len(prefix) <= Len(s) /\ SubSeq(s, 1, Len(prefix)) = prefix

\* the texts written that are a folder's name or a link's anchor, in order
Entries ==
    LET isEntry(i) == \/ i > 1 /\ Texts[i - 1] = Tag(S_h4)
                      \/ StartsWith(Texts[i], S_aOpen)
    IN  Concat([i \in 1..Len(Texts) |-> IF isEntry(i) THEN <<Texts[i]>> ELSE <<>>])

\* C6 as stated: the children of a folder, links and subfolders together,
\* appear in the output in the order of the source "children" array.
C6_Original ==
    (Rendered /\ fnErr = Nil /\ SingleTyped) => Entries = SrcOrder(data.v[K_bar])

\* C6 amended: the links of a folder appear in the output in the order of
\* the source "children" array, and after them its subfolders in the order
\* of the source; for children link A, folder B, link C the output has A's
\* entry, then C's entry, then B's text.
C6_Order ==
    (Rendered /\ fnErr = Nil /\ SingleTyped) => Entries = LinksFirst(data.v[K_bar])

\* link A, folder B, link C have been rendered: A, C, then B and its link
C6_Witness ==
    /\ Rendered
    /\ fnErr = Nil
    /\ data = JObj(K_bar :> FolderNode(N_bar, <<LinkA, FolderB, LinkC>>))
    /\ Entries = <<EscapeString(N_bar), Anchor(U_1, N_A), Anchor(U_2, N_C),
                   EscapeString(N_B), Anchor(U_1, N_D)>>

(***************************************************************************)
(* A parser of the token sequence: the structure a reader of the output    *)
(* recovers.  A <dl> or <ul> without an item is not accepted.              *)
(***************************************************************************)
PFail == [ok |-> FALSE, pos |-> 0, val |-> <<>>]
POk(pos, v) == [ok |-> TRUE, pos |-> pos, val |-> v]
PTok(toks, pos, t) == pos >= 1 /\ pos <= Len(toks) /\ toks[pos] = t

RECURSIVE PDts(_, _, _)
PDts(toks, pos, acc) ==
    IF PTok(toks, pos, Tag(S_dt))
    THEN IF pos + 1 <= Len(toks) /\ PTok(toks, pos + 2, EndTag(S_dt))
         THEN PDts(toks, pos + 3, Append(acc, toks[pos + 1]))
         ELSE PFail
    ELSE POk(pos, acc)

PLinks(toks, pos) ==
    IF PTok(toks, pos, Tag(S_dl))
    THEN LET r == PDts(toks, pos + 1, <<>>)
         IN  IF r.ok /\ r.val # <<>> /\ PTok(toks, r.pos, EndTag(S_dl))
             THEN POk(r.pos + 1, r.val)
             ELSE PFail
    ELSE POk(pos, <<>>)

RECURSIVE PList(_, _)
RECURSIVE PItems(_, _, _)

PItems(toks, pos, acc) ==
    IF PTok(toks, pos, Tag(S_li))
    THEN IF PTok(toks, pos + 1, Tag(S_h4)) /\ PTok(toks, pos + 3, EndTag(S_h4))
         THEN LET l == PLinks(toks, pos + 4)
                  f == PList(toks, l.pos)
              IN  IF l.ok /\ f.ok /\ PTok(toks, f.pos, EndTag(S_li))
                  THEN PItems(toks, f.pos + 1,
                              Append(acc, [name |-> toks[pos + 2], links |-> l.val,
                                           folders |-> f.val]))
                  ELSE PFail
         ELSE PFail
    ELSE POk(pos, acc)

PList(toks, pos) ==
    IF PTok(toks, pos, Tag(S_ul))
    THEN LET r == PItems(toks, pos + 1, <<>>)
         IN  IF r.ok /\ r.val # <<>> /\ PTok(toks, r.pos, EndTag(S_ul))
             THEN POk(r.pos + 1, r.val)
             ELSE PFail
    ELSE POk(pos, <<>>)

PDoc(toks) ==
    IF PTok(toks, 1, htmlHeader) /\ PTok(toks, 2, Tag(S_body))
    THEN LET r == PList(toks, 3)
         IN  IF r.ok /\ PTok(toks, r.pos, EndTag(S_body))
                     /\ PTok(toks, r.pos + 1, S_htmlEnd) /\ Len(toks) = r.pos + 1
             THEN r
             ELSE PFail
    ELSE PFail

RECURSIVE Shape(_)
\* what the output is to show of the folders: names, anchors, nesting
Shape(folders) ==
    [i \in 1..Len(folders) |->
       [name |-> EscapeString(folders[i].Node.Name),
        links |-> [j \in 1..Len(folders[i].Links) |->
                     Anchor(folders[i].Links[j].URL, folders[i].Links[j].Node.Name)],
        folders |-> Shape(folders[i].Folders)]]

\* C7: on a sink that never fails, the output has for every folder one
\* heading, then one anchor per link in the order of Links inside one <dl>,
\* then one <li> per subfolder in the order of Folders inside one <ul>; no
\* <dl> for an empty Links and no <ul> for an empty Folders.
C7_Structure ==
    (Rendered /\ fnErr = Nil) =>
       /\ PDoc(Texts).ok
       /\ PDoc(Texts).val = Shape(root.Folders)

\* a folder with a link, a subfolder with a link and an empty subfolder
C7_Witness ==
    /\ Rendered
    /\ fnErr = Nil
    /\ Len(root.Folders) = 1
    /\ Len(root.Folders[1].Links) = 1
    /\ Len(root.Folders[1].Folders) = 2
    /\ Len(root.Folders[1].Folders[1].Links) = 1
    /\ Len(root.Folders[1].Folders[2].Links) = 0
    /\ Len(root.Folders[1].Folders[2].Folders) = 0
    /\ PDoc(Texts).ok

=============================================================================
